---- MODULE Spec2Model ----
(***************************************************************************)
(* Streaming spawn / eviction pipeline of explode_orfs (src/main.rs).      *)
(*                                                                         *)
(* One frame of the Run phase is                                           *)
(*   Update      pop_orf_from_the_end_spiral_animation  (+ command flush)  *)
(*   PostUpdate  VisibilitySystems::CheckVisibility      (engine)          *)
(*   PostUpdate  cull                                    (+ command flush) *)
(* preceded once by OnEnter(AppState::Run): startup_data.                  *)
(*                                                                         *)
(* Time is counted in whole seconds, entity handles are the natural        *)
(* numbers in allocation order (a Bevy Entity is never handed out twice).  *)
(***************************************************************************)
EXTENDS Integers, Sequences, FiniteSets, TLC

\* ---------------------------------------------------------------- bounds
MaxOrfs == 3        \* longest result of find_all_orfs that is enumerated
MaxStart == 1       \* largest Orf.start that is enumerated
MaxLen == 1         \* largest Orf.end - Orf.start that is enumerated
MaxBatch == 2       \* largest Config.orfs_to_pop_per_step that is enumerated
MaxCulling == 1     \* largest Config.culling that is enumerated
MaxDelta == 1       \* largest Time::delta() of one frame, in seconds
MaxFileLen == 2     \* longest picked file that is enumerated, in bytes

\* ------------------------------------------------------ program constants
TimerSecs == 2      \* Timer::new(Duration::from_secs(2), TimerMode::Once)
MinBatch == 1       \* Slider::new(&mut config.orfs_to_pop_per_step, 1..=100)
Scale == 1000000    \* ... / 1_000_000.0 of the horizontal placement

VARIABLES
    phase,            \* position in the frame schedule
    wasm32,           \* cfg(target_arch = "wasm32") of the build
    config,           \* Config resource
    orfs,             \* Orfs.orfs, the queue of features not yet shown
    timer,            \* Orfs.timer
    entities,         \* Orfs.entities, handles in spawn order
    orf_number,       \* OrfNumber.0
    world,            \* handles of the entities alive with OrfInSpace
    view_visibility,  \* ViewVisibility of every entity of world
    spawned,          \* spawned[k+1] is the Orf entity k was created from
    catalog,          \* all_orfs after the sort of startup_data
    popped,           \* number of Some(orf) results of pop_back/pop_front
    cull_view,        \* ViewVisibility seen by the previous run of cull
    last,             \* what the handler that ran last did
    chromosome_length, \* Orfs.chromosome_length
    transform_x,      \* transform_x[k+1] is Transform.translation.x of entity k
    clock,            \* sum of the Time::delta() of the run, up to TimerSecs
    spawn_order,      \* spawn_order[k+1] is the OrfNumber entity k took its angle from
    app_state,        \* State<AppState>
    genome,           \* Config.genome
    task,             \* the file-pick task of the AsyncTaskRunner
    selected,         \* the genome the operator chose last (radio or Reset)
    clicked           \* the widget the operator used in the last menu frame

\* what the Run phase never touches, and what the menu never touches
menu_vars == <<app_state, genome, task, selected, clicked>>

run_vars == <<orfs, timer, entities, orf_number, world, view_visibility,
              spawned, catalog, popped, cull_view, last, chromosome_length,
              transform_x, clock, spawn_order>>

vars == <<phase, wasm32, config, orfs, timer, entities, orf_number, world,
          view_visibility, spawned, catalog, popped, cull_view, last,
          chromosome_length, transform_x, clock, spawn_order, app_state,
          genome, task, selected, clicked>>

\* ---------------------------------------------------------------- helpers
Range(s) == {s[i] : i \in DOMAIN s}

Min(a, b) == IF a < b THEN a ELSE b

Orf == [start : 0..MaxStart, end : 1..(MaxStart + MaxLen)]

\* what find_all_orfs may return: any list of features with end > start
OrfSet == {o \in Orf : o.end > o.start /\ o.end - o.start <= MaxLen}

RECURSIVE SeqsUpTo(_, _)
SeqsUpTo(S, n) ==
    IF n = 0 THEN {<<>>}
    ELSE LET shorter == SeqsUpTo(S, n - 1)
         IN shorter \cup {Append(s, x) : s \in {t \in shorter : Len(t) = n - 1}, x \in S}

NoOrf == [start |-> 0, end |-> 0]

\* ------------------------------------------------------------ startup_data
\* insertion step of the stable sort: x goes behind every element whose
\* start is not larger (x is the later element of the unsorted list)
RECURSIVE InsertByStart(_, _)
InsertByStart(x, s) ==
    IF s = <<>> THEN <<x>>
    ELSE IF s[Len(s)].start <= x.start THEN Append(s, x)
    ELSE Append(InsertByStart(x, SubSeq(s, 1, Len(s) - 1)), s[Len(s)])

\* all_orfs.sort_by(|a, b| a.start.cmp(&b.start)): stable, ascending start
RECURSIVE SortByStart(_)
SortByStart(s) ==
    IF s = <<>> THEN <<>>
    ELSE InsertByStart(s[Len(s)], SortByStart(SubSeq(s, 1, Len(s) - 1)))

OrfLengths(s) == {s[i].end - s[i].start : i \in DOMAIN s}

SetMax(S) == CHOOSE m \in S : \A x \in S : x <= m

SetMin(S) == CHOOSE m \in S : \A x \in S : m <= x

\* Timer::new(Duration::from_secs(2), TimerMode::Once)
NewTimer == [elapsed |-> 0, finished |-> FALSE]

\* record of the last handler: fires/pops of a tick and whether the timer
\* was finished before it; of a cull pass the invisible entities, the
\* entities the flush removed, the handles popped off the registry, the
\* registry before the pass, and whether the pass saw the same entities
\* with the same flags as the pass before it
NoLast == [op |-> "none", fires |-> 0, pops |-> 0, latched |-> FALSE,
           invisible |-> {}, destroyed |-> {}, evicted |-> <<>>,
           before |-> <<>>, repeat |-> FALSE]

NoView == [done |-> FALSE, vis |-> <<>>]

\* Genome::Nasonia, and the AsyncTaskRunner without a task
Nasonia == [tag |-> "Nasonia", data |-> <<>>]

NoTask == [status |-> "Idle", data |-> <<>>]

\* bytes[0..2] and the two expect("record") on the first FASTA record: the
\* bundled file is read; an uploaded one of fewer than two bytes panics in
\* the slice, a longer one holds a record or not
Readable(g) ==
    IF g.tag = "Nasonia" THEN {TRUE}
    ELSE IF Len(g.data) < 2 THEN {FALSE}
    ELSE BOOLEAN

\* seq.len() of the first record: the bundled sequence has one length (the
\* file is not among the sources; two million bases stand for it), an
\* uploaded one any length that holds the features
SequenceLengths(g) ==
    IF g.tag = "Nasonia" THEN {2 * Scale}
    ELSE {MaxStart + MaxLen, 2 * Scale}

\* OnEnter(AppState::Run).  orf_lengths.iter().max().unwrap() panics when
\* find_all_orfs returned nothing; the resources are inserted otherwise.
\* A genome without a readable record panics before find_all_orfs.
startup_data ==
    /\ phase = "OnEnter"
    /\ \E readable \in Readable(genome),
          all_orfs \in SeqsUpTo(OrfSet, MaxOrfs),
          sequence_length \in SequenceLengths(genome) :
         LET sorted == IF readable THEN SortByStart(all_orfs) ELSE <<>>
         IN /\ ~readable => all_orfs = <<>>
            /\ catalog' = sorted
            /\ chromosome_length' = IF sorted = <<>> THEN chromosome_length
                                    ELSE sequence_length
            /\ IF sorted = <<>>
               THEN /\ phase' = "Panicked"
                    /\ last' = [NoLast EXCEPT !.op = "startup_data"]
                    /\ UNCHANGED <<config, orfs, timer, entities, orf_number>>
               ELSE /\ phase' = "Update"
                    /\ last' = [NoLast EXCEPT !.op = "startup_data"]
                    /\ config' = [config EXCEPT
                                     !.orf_length_max = SetMax(OrfLengths(sorted)),
                                     !.orf_length_min = SetMin(OrfLengths(sorted))]
                    /\ orfs' = sorted
                    /\ timer' = NewTimer
                    /\ entities' = <<>>
                    /\ orf_number' = 0
    /\ UNCHANGED <<wasm32, world, view_visibility, spawned, popped, cull_view,
                   transform_x, clock, spawn_order>>
    /\ UNCHANGED menu_vars

\* ---------------------------------- pop_orf_from_the_end_spiral_animation
\* the tick of a timer built with a duration one second short
TimerTick_Short(t, delta) ==
    IF t.finished THEN t
    ELSE IF t.elapsed + delta >= TimerSecs - 1
         THEN [elapsed |-> TimerSecs, finished |-> TRUE]
         ELSE [elapsed |-> t.elapsed + delta, finished |-> FALSE]

\* the same tick of a TimerMode::Repeating timer
TimerTick_Repeating(t, delta) ==
    [elapsed |-> (t.elapsed + delta) % TimerSecs,
     finished |-> t.elapsed + delta >= TimerSecs]

\* orfs.timer.tick(time.delta()) of a TimerMode::Once timer: a finished
\* timer ignores the tick, an unfinished one accumulates and is clamped
TimerTick(t, delta) ==
    IF t.finished THEN t
    ELSE IF t.elapsed + delta >= TimerSecs
         THEN [elapsed |-> TimerSecs, finished |-> TRUE]
         ELSE [elapsed |-> t.elapsed + delta, finished |-> FALSE]

\* let mut front = false;  (the toggles are commented out)
front == FALSE

\* the pop putting the feature it returns back at the other end
PopOrf_Requeue(q, fr) ==
    IF q = <<>> THEN [some |-> FALSE, orf |-> NoOrf, rest |-> q]
    ELSE IF fr THEN [some |-> TRUE, orf |-> Head(q), rest |-> Append(Tail(q), Head(q))]
    ELSE [some |-> TRUE, orf |-> q[Len(q)],
          rest |-> <<q[Len(q)]>> \o SubSeq(q, 1, Len(q) - 1)]

\* the pop with the two ends swapped
PopOrf_Swapped(q, fr) ==
    IF q = <<>> THEN [some |-> FALSE, orf |-> NoOrf, rest |-> q]
    ELSE IF fr THEN [some |-> TRUE, orf |-> q[Len(q)], rest |-> SubSeq(q, 1, Len(q) - 1)]
    ELSE [some |-> TRUE, orf |-> Head(q), rest |-> Tail(q)]

\* if front { orfs.orfs.pop_front() } else { orfs.orfs.pop_back() }
PopOrf(q, fr) ==
    IF q = <<>> THEN [some |-> FALSE, orf |-> NoOrf, rest |-> q]
    ELSE IF fr THEN [some |-> TRUE, orf |-> Head(q), rest |-> Tail(q)]
    ELSE [some |-> TRUE, orf |-> q[Len(q)], rest |-> SubSeq(q, 1, Len(q) - 1)]

\* the iteration without orf_number.0 += 1
SpawnOne_NoCount(st, p) ==
    [st EXCEPT !.orfs = p.rest,
               !.popped = @ + 1,
               !.order = Append(@, st.orf_number),
               !.spawned = Append(@, p.orf),
               !.entities = Append(@, Len(st.spawned))]

\* the iteration reading the end of the queue without removing it
SpawnOne_Peek(st, p) ==
    [st EXCEPT !.popped = @ + 1,
               !.orf_number = @ + 1,
               !.spawned = Append(@, p.orf),
               !.entities = Append(@, Len(st.spawned))]

\* one iteration of the for loop after a Some(orf): the angle is taken
\* from the counter, the counter is bumped, the entity is reserved by
\* commands.spawn(..).id() and pushed on the registry.  st.spawned doubles
\* as the allocator: the next handle is its length.
SpawnOne(st, p) ==
    [st EXCEPT !.orfs = p.rest,
               !.popped = @ + 1,
               !.order = Append(@, st.orf_number),
               !.orf_number = @ + 1,
               !.spawned = Append(@, p.orf),
               !.entities = Append(@, Len(st.spawned))]

\* the loop over 0..=config.orfs_to_pop_per_step
RECURSIVE BatchLoop_Inclusive(_, _)
BatchLoop_Inclusive(st, n) ==
    LET p == PopOrf(st.orfs, front)
    IN IF ~p.some THEN st
       ELSE IF n = 0 THEN SpawnOne(st, p)
       ELSE BatchLoop_Inclusive(SpawnOne(st, p), n - 1)

\* the loop spawning a default Orf instead of returning on None
RECURSIVE BatchLoop_Default(_, _)
BatchLoop_Default(st, n) ==
    IF n = 0 THEN st
    ELSE LET p == PopOrf(st.orfs, front)
         IN BatchLoop_Default([st EXCEPT !.orfs = p.rest,
                                         !.popped = @ + (IF p.some THEN 1 ELSE 0),
                                         !.orf_number = @ + 1,
                                         !.spawned = Append(@, p.orf),
                                         !.entities = Append(@, Len(st.spawned))],
                              n - 1)

\* for _ in 0..config.orfs_to_pop_per_step { .. None => return .. }
RECURSIVE BatchLoop(_, _)
BatchLoop(st, n) ==
    IF n = 0 THEN st
    ELSE LET p == PopOrf(st.orfs, front)
         IN IF ~p.some THEN st
            ELSE BatchLoop(SpawnOne(st, p), n - 1)

\* the placement without the halving of the chromosome length
PlaceX_NotHalved(orf, length) ==
    [num |-> 2 * orf.start - 2 * length, den |-> 2 * Scale]

\* let x = (orf.start as f32 - orfs.chromosome_length as f32 / 2.0) / 1_000_000.0
\* as the fraction num / den
PlaceX(orf, length) == [num |-> 2 * orf.start - length, den |-> 2 * Scale]

\* the Update system of the Run phase, with the command flush that ends
\* the schedule: the reserved entities exist, not yet seen by any camera
pop_orf_from_the_end_spiral_animation ==
    /\ phase = "Update"
    /\ \E delta \in 0..MaxDelta :
         LET t == TimerTick(timer, delta)
             st0 == [orfs |-> orfs, popped |-> popped, orf_number |-> orf_number,
                     spawned |-> spawned, entities |-> entities,
                     order |-> spawn_order]
             st == IF t.finished
                   THEN BatchLoop(st0, config.orfs_to_pop_per_step)
                   ELSE st0
             fresh == Len(spawned)..(Len(st.spawned) - 1)
         IN /\ timer' = t
            /\ orfs' = st.orfs
            /\ popped' = st.popped
            /\ orf_number' = st.orf_number
            /\ spawned' = st.spawned
            /\ entities' = st.entities
            /\ spawn_order' = st.order
            /\ world' = world \cup fresh
            /\ view_visibility' =
                 [e \in world \cup fresh |->
                     IF e \in world THEN view_visibility[e] ELSE FALSE]
            /\ transform_x' =
                 [k \in 1..Len(st.spawned) |->
                     IF k <= Len(transform_x) THEN transform_x[k]
                     ELSE PlaceX(st.spawned[k], chromosome_length)]
            /\ clock' = IF clock + delta >= TimerSecs THEN TimerSecs
                        ELSE clock + delta
            /\ last' = [NoLast EXCEPT !.op = "pop_orf",
                                      !.fires = IF t.finished THEN 1 ELSE 0,
                                      !.pops = st.popped - popped,
                                      !.latched = timer.finished,
                                      !.before = entities]
    /\ phase' = "CheckVisibility"
    /\ UNCHANGED <<wasm32, config, catalog, cull_view, chromosome_length>>
    /\ UNCHANGED menu_vars

\* ------------------------------------------------------------------- cull
\* VisibilitySystems::CheckVisibility, which cull is ordered after: the
\* engine decides for every entity whether some camera sees it this frame
CheckVisibility ==
    /\ phase = "CheckVisibility"
    /\ \E vis \in [world -> BOOLEAN] : view_visibility' = vis
    /\ phase' = "Cull"
    /\ UNCHANGED <<wasm32, config, orfs, timer, entities, orf_number, world,
                   spawned, catalog, popped, cull_view, last,
                   chromosome_length, transform_x, clock, spawn_order>>
    /\ UNCHANGED menu_vars

\* the loop leaving after its first despawn
Invisible_First(w, vis) ==
    LET inv == {e \in w : ~vis[e]}
    IN IF inv = {} THEN {} ELSE {CHOOSE e \in inv : \A f \in inv : e <= f}

\* for (entity, view_visibility) in query.iter() { if !view_visibility.get() .. }
Invisible(w, vis) == {e \in w : ~vis[e]}

\* the loop stopping one record early
RECURSIVE EvictLoop_Lax(_, _, _, _)
EvictLoop_Lax(ents, cap, w, out) ==
    IF Len(ents) > cap + 1
    THEN IF Head(ents) \in w
         THEN EvictLoop_Lax(Tail(ents), cap, w, Append(out, Head(ents)))
         ELSE [panic |-> TRUE, entities |-> Tail(ents), evicted |-> Append(out, Head(ents))]
    ELSE [panic |-> FALSE, entities |-> ents, evicted |-> out]

\* while orfs.entities.len() > config.culling { pop_front; commands.entity(e) }
\* commands.entity(e) panics for a handle whose entity no longer exists.
RECURSIVE EvictLoop(_, _, _, _)
EvictLoop(ents, cap, w, out) ==
    IF Len(ents) > cap
    THEN IF Head(ents) \in w
         THEN EvictLoop(Tail(ents), cap, w, Append(out, Head(ents)))
         ELSE [panic |-> TRUE, entities |-> Tail(ents), evicted |-> Append(out, Head(ents))]
    ELSE [panic |-> FALSE, entities |-> ents, evicted |-> out]

\* the cfg(target_arch = "wasm32") block is compiled in or not
Evict(ents, cap, w, enabled) ==
    IF enabled THEN EvictLoop(ents, cap, w, <<>>)
    ELSE [panic |-> FALSE, entities |-> ents, evicted |-> <<>>]

\* the previous pass exists, no entity was spawned since (handles are never
\* reused, so a new one is outside the old domain) and no flag changed
SameView(prev, w, vis) ==
    /\ prev.done
    /\ w \subseteq DOMAIN prev.vis
    /\ \A e \in w : vis[e] = prev.vis[e]

\* the PostUpdate system with its command flush; a panic leaves the queued
\* despawns unapplied
cull ==
    /\ phase = "Cull"
    /\ LET inv == Invisible(world, view_visibility)
           ev == Evict(entities, config.culling, world, wasm32)
           gone == IF ev.panic THEN {} ELSE inv \cup Range(ev.evicted)
       IN /\ entities' = ev.entities
          /\ world' = world \ gone
          /\ view_visibility' = [e \in world \ gone |-> view_visibility[e]]
          /\ phase' = IF ev.panic THEN "Panicked" ELSE "Update"
          /\ last' = [NoLast EXCEPT !.op = "cull",
                                    !.invisible = inv,
                                    !.destroyed = gone,
                                    !.evicted = ev.evicted,
                                    !.before = entities,
                                    !.repeat = SameView(cull_view, world, view_visibility)]
          /\ cull_view' = [done |-> TRUE, vis |-> view_visibility]
    /\ UNCHANGED <<wasm32, config, orfs, timer, orf_number, spawned, catalog,
                   popped, chromosome_length, transform_x, clock, spawn_order>>
    /\ UNCHANGED menu_vars

\* ---------------------------------------------------------- specification
\* Config::default() with the two sliders of the menu that the Run phase
\* reads; culling has a slider on wasm32 only
Config0 == [orfs_to_pop_per_step : MinBatch..MaxBatch,
            culling : 1..MaxCulling,
            orf_length_max : {0},
            orf_length_min : {1}]

\* the Run phase has just been entered: Start was pressed in the menu with
\* the bundled genome, no file was ever picked
Init ==
    /\ phase = "OnEnter"
    /\ wasm32 \in BOOLEAN
    /\ config \in Config0
    /\ orfs = <<>>
    /\ timer = NewTimer
    /\ entities = <<>>
    /\ orf_number = 0
    /\ world = {}
    /\ view_visibility = <<>>
    /\ spawned = <<>>
    /\ catalog = <<>>
    /\ popped = 0
    /\ cull_view = NoView
    /\ last = NoLast
    /\ chromosome_length = 0
    /\ transform_x = <<>>
    /\ clock = 0
    /\ spawn_order = <<>>
    /\ app_state = "Run"
    /\ genome = Nasonia
    /\ task = NoTask
    /\ selected = "Nasonia"
    /\ clicked = "Start"

Next ==
    \/ startup_data
    \/ pop_orf_from_the_end_spiral_animation
    \/ CheckVisibility
    \/ cull

Spec == Init /\ [][Next]_vars

\* the same frames when every frame is eventually run and time passes: a
\* tick with a positive delta keeps coming (a finished timer needs none)
PositiveTick ==
    /\ pop_orf_from_the_end_spiral_animation
    /\ timer.finished \/ clock' > clock

FairSpec ==
    /\ Spec
    /\ WF_vars(startup_data)
    /\ SF_vars(PositiveTick)
    /\ WF_vars(CheckVisibility)
    /\ WF_vars(cull)

\* the Run phase entered with an uploaded genome of two bytes
UploadInit ==
    /\ phase = "OnEnter"
    /\ wasm32 \in BOOLEAN
    /\ config \in Config0
    /\ orfs = <<>>
    /\ timer = NewTimer
    /\ entities = <<>>
    /\ orf_number = 0
    /\ world = {}
    /\ view_visibility = <<>>
    /\ spawned = <<>>
    /\ catalog = <<>>
    /\ popped = 0
    /\ cull_view = NoView
    /\ last = NoLast
    /\ chromosome_length = 0
    /\ transform_x = <<>>
    /\ clock = 0
    /\ spawn_order = <<>>
    /\ app_state = "Run"
    /\ genome = [tag |-> "Custom", data |-> <<0, 0>>]
    /\ task = NoTask
    /\ selected = "Custom"
    /\ clicked = "Start"

UploadSpec == UploadInit /\ [][Next]_vars

\* -------------------------------------------------------------------- gui
\* Genome::Custom(v)
Custom(v) == [tag |-> "Custom", data |-> v]

\* impl PartialEq for Genome: the variants are compared, the bytes are not
GenomeEq(a, b) == a.tag = b.tag

\* ui.radio_value(&mut config.genome, alternative, ..): a click stores the
\* alternative unless the current value already compares equal to it
RadioValue(current, alternative, click) ==
    IF click /\ ~GenomeEq(current, alternative) THEN alternative ELSE current

\* task_executor.start(..): the runner tracks the new task, whatever it
\* tracked before is dropped
StartTask(t, click) == IF click THEN [status |-> "Pending", data |-> <<>>] ELSE t

\* match task_executor.poll() { Finished(v) => config.genome = Genome::Custom(v) }
\* a finished task is handed out once and the runner is idle afterwards
PollGenome(g, t) == IF t.status = "Ready" THEN Custom(t.data) ELSE g

PollTask(t) == IF t.status = "Ready" THEN NoTask ELSE t

\* the test under the Start button that decides on app_state.set(Run)
StartsMissingCheck(g) == TRUE

\* if let Genome::Custom(ref data) = config.genome { if data.is_empty() { return; } }
Starts(g) == ~(g.tag = "Custom" /\ g.data = <<>>)

\* Config::default(), in the ranges that are enumerated
DefaultConfig == [orfs_to_pop_per_step |-> MinBatch, culling |-> 1,
                  orf_length_max |-> 0, orf_length_min |-> 1]

\* the three sliders; the culling slider exists on wasm32 only
Sliders(c, w) ==
    {[c EXCEPT !.orf_length_min = m, !.orfs_to_pop_per_step = b, !.culling = k] :
        m \in 1..MaxLen, b \in MinBatch..MaxBatch,
        k \in IF w THEN 1..MaxCulling ELSE {c.culling}}

\* what the operator can do in one frame: nothing, or use one widget
Clicks == {"none", "Nasonia", "Custom", "Upload", "Slider", "Reset", "Start"}

\* a file the dialog may hand back
Files == SeqsUpTo({0}, MaxFileLen)

\* one frame of the menu: the Update system gui and the command flush that
\* applies the Reset; the Upload button is only there for a Custom genome
gui ==
    /\ app_state = "Menu"
    /\ \E click \in Clicks, slid \in Sliders(config, wasm32) :
         LET g1 == RadioValue(RadioValue(genome, Nasonia, click = "Nasonia"),
                              Custom(<<>>), click = "Custom")
             t1 == StartTask(task, click = "Upload")
             g2 == PollGenome(g1, t1)
             c2 == IF click = "Slider" THEN slid ELSE config
             go == click = "Start" /\ Starts(g2)
         IN /\ click = "Upload" => g1.tag = "Custom"
            /\ click # "Slider" => slid = config
            /\ task' = PollTask(t1)
            /\ genome' = IF click = "Reset" THEN Nasonia ELSE g2
            /\ config' = IF click = "Reset" THEN DefaultConfig ELSE c2
            /\ app_state' = IF go THEN "Run" ELSE "Menu"
            /\ phase' = IF go THEN "OnEnter" ELSE "Menu"
            /\ selected' = IF click \in {"Nasonia", "Reset"} THEN "Nasonia"
                           ELSE IF click = "Custom" THEN "Custom"
                           ELSE selected
            /\ clicked' = click
    /\ UNCHANGED wasm32
    /\ UNCHANGED run_vars

\* the background task: the operator picks a file and it is read
FilePicked ==
    /\ task.status = "Pending"
    /\ \E v \in Files : task' = [status |-> "Ready", data |-> v]
    /\ UNCHANGED <<phase, wasm32, config, app_state, genome, selected, clicked>>
    /\ UNCHANGED run_vars

\* the application after App::run(): AppState::Menu and Config::default()
MenuInit ==
    /\ phase = "Menu"
    /\ wasm32 \in BOOLEAN
    /\ config = DefaultConfig
    /\ orfs = <<>>
    /\ timer = NewTimer
    /\ entities = <<>>
    /\ orf_number = 0
    /\ world = {}
    /\ view_visibility = <<>>
    /\ spawned = <<>>
    /\ catalog = <<>>
    /\ popped = 0
    /\ cull_view = NoView
    /\ last = NoLast
    /\ chromosome_length = 0
    /\ transform_x = <<>>
    /\ clock = 0
    /\ spawn_order = <<>>
    /\ app_state = "Menu"
    /\ genome = Nasonia
    /\ task = NoTask
    /\ selected = "Nasonia"
    /\ clicked = "none"

MenuNext ==
    \/ gui
    \/ FilePicked

MenuSpec == MenuInit /\ [][MenuNext]_vars

\* ------------------------------------------------------------ properties
\* the frame is over: cull has run to its end and its commands are applied
FrameEnd == phase = "Update" /\ last.op = "cull"

Reverse(s) == [i \in 1..Len(s) |-> s[Len(s) + 1 - i]]

IsSortedByStart(s) == \A i, j \in DOMAIN s : i < j => s[i].start <= s[j].start

\* the queue emptied through one end only
RECURSIVE Drain(_, _)
Drain(q, fr) ==
    LET p == PopOrf(q, fr)
    IN IF ~p.some THEN <<>> ELSE <<p.orf>> \o Drain(p.rest, fr)

\* C1: at the end of every frame of a build with the evictor compiled in,
\* the registry holds at most Config.culling handles.
C1_RegistryWithinCap ==
    (FrameEnd /\ wasm32) => Len(entities) <= config.culling

\* a frame ended in which the evictor removed records down to the cap
C1_Witness ==
    /\ FrameEnd
    /\ wasm32
    /\ Len(last.evicted) > 0
    /\ Len(entities) = config.culling

\* C2: at the end of every frame the registry has as many records as
\* there are OrfInSpace entities in the world.
C2_RegistryMatchesWorld ==
    FrameEnd => Len(entities) = Cardinality(world)

\* C3: after a cull pass every entity that was invisible in it is gone
\* from the world and from the registry.
C3_CullRemovesInvisibleRecords ==
    FrameEnd => /\ last.invisible \cap world = {}
                /\ last.invisible \cap Range(entities) = {}

\* C4: with an empty result of find_all_orfs the Run phase is entered
\* without an error, with an empty queue and without any spawn.
C4_EmptyCatalogStarts ==
    (phase # "OnEnter" /\ catalog = <<>>) =>
        /\ phase # "Panicked"
        /\ orfs = <<>>
        /\ spawned = <<>>

\* C5: the queue is ascending in start and is always the front part of
\* the catalog, the features turned into entities are, in creation order,
\* the rest of the catalog reversed (the whole catalog reversed once the
\* queue is empty); popping the front only yields the catalog itself.
C5_DrainOrder ==
    phase \notin {"OnEnter"} =>
        /\ IsSortedByStart(orfs)
        /\ Len(orfs) <= Len(catalog)
        /\ orfs = SubSeq(catalog, 1, Len(orfs))
        /\ spawned = Reverse(SubSeq(catalog, Len(orfs) + 1, Len(catalog)))
        /\ (orfs = <<>> => spawned = Reverse(catalog))
        /\ Drain(catalog, FALSE) = Reverse(catalog)
        /\ Drain(catalog, TRUE) = catalog

\* a catalog of several features with different starts was drained to the end
C5_Witness ==
    /\ orfs = <<>>
    /\ Len(catalog) >= 3
    /\ catalog[1].start < catalog[Len(catalog)].start
    /\ Len(spawned) = Len(catalog)

\* C6: the entities ever created are as many as the features popped, which
\* is the catalog size less the queue length and at most the catalog size.
C6_CreatedEqualsPopped ==
    phase # "OnEnter" =>
        /\ Len(spawned) = popped
        /\ orf_number = popped
        /\ popped = Len(catalog) - Len(orfs)
        /\ Len(spawned) <= Len(catalog)

\* a fire has popped part of the catalog
C6_Witness ==
    /\ last.op = "pop_orf"
    /\ last.pops > 0
    /\ popped > last.pops
    /\ orfs # <<>>

\* C7: a tick of the finished timer on an empty queue creates no entity
\* and leaves queue, registry, counter and world as they are.
C7_EmptyFireIsNoop ==
    [][(phase = "Update" /\ phase' = "CheckVisibility"
            /\ timer'.finished /\ orfs = <<>>) =>
        /\ orfs' = orfs
        /\ entities' = entities
        /\ orf_number' = orf_number
        /\ spawned' = spawned
        /\ world' = world
        /\ timer' = timer]_vars

\* a fire found the queue empty while records were still registered
C7_Witness ==
    /\ last.op = "pop_orf"
    /\ last.fires = 1
    /\ last.pops = 0
    /\ orfs = <<>>
    /\ entities # <<>>

\* C8: a cull pass of a build with the evictor leaves exactly the newest
\* min(len, culling) records in their order, and every record it removed
\* had its entity destroyed by that pass.
C8_EvictKeepsNewest ==
    (last.op = "cull" /\ wasm32) =>
        LET n == Min(Len(last.before), config.culling)
            m == Len(last.before)
        IN /\ entities = SubSeq(last.before, m - n + 1, m)
           /\ Range(last.evicted) \subseteq last.destroyed

\* C9: a finished timer stays finished, and every tick that ends with the
\* timer finished performs one fire.
C9_TimerLatch ==
    [][/\ timer.finished => timer'.finished
       /\ (phase = "Update" /\ phase' = "CheckVisibility" /\ timer'.finished)
             => last'.fires = 1
       /\ (phase = "Update" /\ phase' = "CheckVisibility" /\ timer.finished)
             => timer' = timer]_vars

\* a tick fired with the timer already finished before it
C9_Witness ==
    /\ last.op = "pop_orf"
    /\ last.latched
    /\ last.fires = 1
    /\ timer.finished

\* C10: a cull pass that sees the entities of the previous pass with the
\* same visibility flags, no entity having been spawned in between,
\* destroys nothing and leaves registry and world as they were.
C10_CullIdempotent ==
    (last.op = "cull" /\ last.repeat) =>
        /\ phase = "Update"
        /\ last.destroyed = {}
        /\ last.evicted = <<>>
        /\ entities = last.before
        /\ last.invisible = {}

\* such a second pass ran over a non-empty world
C10_Witness ==
    /\ last.op = "cull"
    /\ last.repeat
    /\ world # {}

\* C11: Start leads to the Run phase exactly when the genome is the bundled
\* one or a Custom one with bytes; a Start with an empty Custom genome
\* leaves the application in the menu.
C11_StartNeedsGenome ==
    /\ app_state = "Run" => (genome.tag = "Nasonia" \/ genome.data # <<>>)
    /\ (clicked = "Start" /\ app_state = "Menu") =>
          (genome.tag = "Custom" /\ genome.data = <<>> /\ phase = "Menu")
    /\ (clicked = "Start" /\ (genome.tag = "Nasonia" \/ genome.data # <<>>)) =>
          app_state = "Run"

\* a Start was rejected
C11_Witness ==
    /\ clicked = "Start"
    /\ app_state = "Menu"
    /\ genome = Custom(<<>>)

\* C12: a cull pass comes after the frame's spawns, and its evictor trims
\* the registry the visibility culler left: the records of the entities
\* invisible in the pass are out before the oldest of the rest are cut
\* down to Config.culling.
C12_EvictsWhatCullingLeft ==
    (last.op = "cull" /\ wasm32) =>
        LET Left(e) == e \notin last.invisible
            left == SelectSeq(last.before, Left)
            n == Min(Len(left), config.culling)
        IN /\ spawned # <<>> => Len(spawned) - 1 \in Range(last.before)
           /\ entities = SubSeq(left, Len(left) - n + 1, Len(left))

\* C13: a fire pops min(orfs_to_pop_per_step, queue length) features, from
\* the back, and appends one record per pop to the registry, in pop order.
C13_FirePopsBatch ==
    (last.op = "pop_orf" /\ last.fires = 1) =>
        LET k == last.pops
            was == Len(orfs) + k
        IN /\ k = Min(config.orfs_to_pop_per_step, was)
           /\ Len(spawned) >= k
           /\ entities = last.before \o [i \in 1..k |-> Len(spawned) - k + i - 1]
           /\ \A i \in 1..k : spawned[Len(spawned) - k + i] = catalog[was + 1 - i]
           /\ \A i \in 1..k : spawn_order[Len(spawned) - k + i] = orf_number - k + i - 1

\* a fire that found fewer features than a batch, after a fire of a whole batch
C13_Witness ==
    /\ last.op = "pop_orf"
    /\ last.fires = 1
    /\ last.pops = 1
    /\ config.orfs_to_pop_per_step = 2
    /\ orfs = <<>>
    /\ entities = <<0, 1, 2>>

\* C14: the x of every spawned entity is (start - chromosome_length / 2)
\* / 1,000,000, whatever the tick, the batch and the spawn order; start 0
\* on two million bases is x = -1.
C14_Placement ==
    /\ Len(transform_x) = Len(spawned)
    /\ \A k \in DOMAIN transform_x :
         /\ transform_x[k].den = 2 * Scale
         /\ transform_x[k].num = 2 * spawned[k].start - chromosome_length
         /\ (spawned[k].start = 0 /\ chromosome_length = 2000000) =>
               transform_x[k].num = 0 - transform_x[k].den

\* two features of the same start were spawned in different ticks on a
\* short chromosome
C14_Witness ==
    /\ chromosome_length < Scale
    /\ \E i, j \in DOMAIN transform_x :
         /\ i < j
         /\ spawned[i].start = spawned[j].start
         /\ transform_x[i] = transform_x[j]
         /\ config.orfs_to_pop_per_step = 1

\* C15: as long as the deltas of the run add up to less than the timer's
\* two seconds nothing is popped and nothing is created.
C15_NothingBeforeInterval ==
    clock < TimerSecs =>
        /\ orfs = catalog
        /\ entities = <<>>
        /\ spawned = <<>>
        /\ popped = 0
        /\ world = {}

\* a tick with a positive delta that stayed below the interval
C15_Witness ==
    /\ last.op = "pop_orf"
    /\ clock > 0
    /\ clock < TimerSecs
    /\ orfs # <<>>

\* C16: OrfNumber never goes down, it is the number of entities created,
\* the k-th entity took spawn order k, and the registry is strictly
\* increasing in spawn order.
C16_SpawnOrder ==
    [][/\ orf_number' >= orf_number
       /\ orf_number' = Len(spawned')
       /\ Len(spawn_order') = Len(spawned')
       /\ \A k \in DOMAIN spawn_order' : spawn_order'[k] = k - 1
       /\ \A i, j \in DOMAIN entities' :
             i < j => spawn_order'[entities'[i] + 1] < spawn_order'[entities'[j] + 1]]_vars

\* several entities were created and are registered
C16_Witness ==
    /\ orf_number >= 3
    /\ Len(entities) >= 3

\* C17: no step makes the queue longer or changes what is left of it, and
\* a cull pass leaves the queue and the set of created entities alone.
C17_QueueOnlyShrinks ==
    [][/\ phase # "OnEnter" =>
             /\ Len(orfs') <= Len(orfs)
             /\ orfs' = SubSeq(orfs, 1, Len(orfs'))
       /\ phase = "Cull" =>
             /\ orfs' = orfs
             /\ spawned' = spawned
             /\ orf_number' = orf_number]_vars

\* a cull pass destroyed entities while features were still queued
C17_Witness ==
    /\ last.op = "cull"
    /\ last.destroyed # {}
    /\ last.evicted # <<>>
    /\ orfs # <<>>

\* C18: with frames that keep coming and time that passes the queue gets
\* empty and stays empty.
C18_EventuallyDrained ==
    <>[](phase # "OnEnter" /\ orfs = <<>>)

\* C19: every despawn of a cull pass is for an entity that is in the world
\* and that the pass has not despawned already.
C19_DestroyOnce ==
    last.op = "cull" =>
        LET alive == world \cup last.destroyed
        IN /\ Range(last.evicted) \subseteq alive
           /\ Range(last.evicted) \cap last.invisible = {}

\* C20: once the bundled genome is the selection, the genome stays the
\* bundled one in every frame in which the operator does not select Custom,
\* also when a file-pick task started earlier ends.
C20_SelectionSurvivesUpload ==
    [][(app_state = "Menu" /\ genome.tag = "Nasonia" /\ selected = "Nasonia"
           /\ selected' = "Nasonia") => genome'.tag = "Nasonia"]_vars
====
